---- MODULE Spec2Model ----
(***************************************************************************)
(* Model of the mapping converter of DecompilerMC (src/main.py):           *)
(* remove_brackets, remap_file_path and convert_mappings.                  *)
(*                                                                         *)
(* A Python str is modelled as a sequence of one-character strings, so     *)
(* that split, strip, slicing and substring tests are computed character   *)
(* by character as Python computes them.                                   *)
(***************************************************************************)
EXTENDS Integers, Sequences, FiniteSets, TLC

(***************************************************************************)
(* Bounds of the model.                                                    *)
(***************************************************************************)
\* longest input file, in lines
MaxLines == 3
\* number of invocations of convert_mappings in one behaviour
MaxCalls == 2
\* longest argument string of the pure-function specification
MaxLen == 4

(***************************************************************************)
(* Python str primitives.                                                  *)
(***************************************************************************)
\* s[a:b] with 0-based Python bounds already clamped by the caller
Slice(s, from, to) == IF to < from THEN << >> ELSE SubSeq(s, from, to)

\* str.startswith(p)
StartsWith(s, p) ==
    /\ Len(p) <= Len(s)
    /\ SubSeq(s, 1, Len(p)) = p

\* str.endswith(p)
EndsWith(s, p) ==
    /\ Len(p) <= Len(s)
    /\ SubSeq(s, Len(s) - Len(p) + 1, Len(s)) = p

\* the 1-based positions at which sub occurs in s
Occurrences(s, sub) ==
    { k \in 1..(Len(s) - Len(sub) + 1) : SubSeq(s, k, k + Len(sub) - 1) = sub }

\* sub in s
Contains(s, sub) == Occurrences(s, sub) # {}

\* position of the first occurrence of sub in s (there is one)
FirstOcc(s, sub) ==
    CHOOSE k \in Occurrences(s, sub) : \A j \in Occurrences(s, sub) : k <= j

\* s.split(sep), sep non-empty: cut at every occurrence, scanning left to right
RECURSIVE Split(_, _)
Split(s, sep) ==
    IF ~Contains(s, sep)
    THEN << s >>
    ELSE LET k == FirstOcc(s, sep)
         IN  << Slice(s, 1, k - 1) >> \o Split(Slice(s, k + Len(sep), Len(s)), sep)

\* sep.join(parts)
RECURSIVE Join(_, _)
Join(parts, sep) ==
    IF Len(parts) = 0 THEN << >>
    ELSE IF Len(parts) = 1 THEN parts[1]
    ELSE parts[1] \o sep \o Join(Tail(parts), sep)

\* "".join(parts)
RECURSIVE Concat(_)
Concat(parts) ==
    IF Len(parts) = 0 THEN << >> ELSE parts[1] \o Concat(Tail(parts))

\* the characters str.strip() family removes
Whitespace == { " ", "\t", "\n" }

\* s.lstrip()
RECURSIVE LStrip(_)
LStrip(s) ==
    IF Len(s) > 0 /\ s[1] \in Whitespace THEN LStrip(Tail(s)) ELSE s

\* s.rstrip()
RECURSIVE RStrip(_)
RStrip(s) ==
    IF Len(s) > 0 /\ s[Len(s)] \in Whitespace
    THEN RStrip(SubSeq(s, 1, Len(s) - 1))
    ELSE s

\* parts[-1]
Last(parts) == parts[Len(parts)]

\* s[1:-1]
Strip1(s) == Slice(s, 2, Len(s) - 1)

\* s[:-2]
DropLast2(s) == Slice(s, 1, Len(s) - 2)

(***************************************************************************)
(* String literals of the source.                                          *)
(***************************************************************************)
Arrow == << " ", "-", ">", " " >>
Indent == << " ", " ", " ", " " >>
Hash == << "#" >>
Brackets == << "[", "]" >>
Dot == << "." >>
Slash == << "/" >>
Colon == << ":" >>
Comma == << "," >>
Space == << " " >>
Tab == << "\t" >>
Newline == << "\n" >>
LParen == << "(" >>
RParen == << ")" >>
LetterL == << "L" >>
Semi == << ";" >>
Open == << "[" >>

kw_int == << "i", "n", "t" >>
kw_double == << "d", "o", "u", "b", "l", "e" >>
kw_boolean == << "b", "o", "o", "l", "e", "a", "n" >>
kw_float == << "f", "l", "o", "a", "t" >>
kw_long == << "l", "o", "n", "g" >>
kw_byte == << "b", "y", "t", "e" >>
kw_short == << "s", "h", "o", "r", "t" >>
kw_char == << "c", "h", "a", "r" >>
kw_void == << "v", "o", "i", "d" >>

(***************************************************************************)
(* remove_brackets and remap_file_path.                                    *)
(***************************************************************************)
\* remove_brackets(line, counter): the while loop, one iteration per unfolding
RECURSIVE remove_brackets(_, _)
remove_brackets(line, counter) ==
    IF Contains(line, Brackets)
    THEN remove_brackets(DropLast2(line), counter + 1)
    ELSE << line, counter >>

\* the dict remap_primitives
remap_primitives ==
    { << kw_int, << "I" >> >>, << kw_double, << "D" >> >>,
      << kw_boolean, << "Z" >> >>, << kw_float, << "F" >> >>,
      << kw_long, << "J" >> >>, << kw_byte, << "B" >> >>,
      << kw_short, << "S" >> >>, << kw_char, << "C" >> >>,
      << kw_void, << "V" >> >> }

\* path in remap_primitives
IsPrimitive(path) == \E e \in remap_primitives : e[1] = path

\* remap_primitives[path]
PrimitiveLetter(path) == (CHOOSE e \in remap_primitives : e[1] = path)[2]

\* the variant that forgets the dots
remap_file_path_nodots(path) ==
    IF IsPrimitive(path)
    THEN PrimitiveLetter(path)
    ELSE LetterL \o path \o Semi

remap_file_path(path) ==
    IF IsPrimitive(path)
    THEN PrimitiveLetter(path)
    ELSE LetterL \o Join(Split(path, Dot), Slash) \o Semi

(***************************************************************************)
(* convert_mappings: the computations on one line.                         *)
(***************************************************************************)
\* a, b = parts: the unpacking of a split into two names succeeds
Unpack2Lenient(parts) == Len(parts) >= 1

Unpack2(parts) == Len(parts) = 2

\* line.startswith('#')
IsComment(line) == StartsWith(line, Hash)

\* line.startswith('    ')
IsIndented(line) == StartsWith(line, Indent)

\* the empty dict
EmptyDict == << >>

\* d[k] = v
DictPut(d, k, v) == [x \in (DOMAIN d) \cup {k} |-> IF x = k THEN v ELSE d[x]]

\* the first pass on one line that unpacks: file_name afterwards
Pass1UpdateInverted(fn, line) ==
    LET parts == Split(line, Arrow)
    IN  IF IsIndented(line)
        THEN DictPut(fn, remap_file_path(parts[1]), Split(Last(parts), Colon)[1])
        ELSE fn

Pass1Update(fn, line) ==
    LET parts == Split(line, Arrow)
        deobf_name == parts[1]
        obf_name == Split(Last(parts), Colon)[1]
    IN  IF ~IsIndented(line)
        THEN DictPut(fn, remap_file_path(deobf_name), obf_name)
        ELSE fn

\* "L" + file_name[t] + ";" if t in file_name else t
SubstituteNever(t, fn) == t

Substitute(t, fn) ==
    IF t \in DOMAIN fn THEN LetterL \o fn[t] \o Semi ELSE t

\* "/".join(t.split(".")) if "." in t else t
DotsToSlashes(t) ==
    IF Contains(t, Dot) THEN Join(Split(t, Dot), Slash) ELSE t

\* the variant that puts each bracket after the leading letter
RECURSIVE RestoreBracketsInside(_, _)
RestoreBracketsInside(t, n) ==
    IF n = 0 THEN t
    ELSE RestoreBracketsInside(
             IF Last(t) = ";"
             THEN << t[1] >> \o Open \o Slice(t, 2, Len(t))
             ELSE Open \o t,
             n - 1)

\* restore the array brackets upfront, n times
RECURSIVE RestoreBrackets(_, _)
RestoreBrackets(t, n) ==
    IF n = 0 THEN t
    ELSE RestoreBrackets(
             IF Last(t) = ";"
             THEN Open \o Slice(t, 1, Len(t) - 1) \o Semi
             ELSE Open \o t,
             n - 1)

\* one type token through remove_brackets, remap_file_path, the file_name
\* lookup, the dot rewrite and the bracket restore
TypeDescriptor(token, fn) ==
    LET rb == remove_brackets(token, 0)
    IN  RestoreBrackets(DotsToSlashes(Substitute(remap_file_path(rb[1]), fn)), rb[2])

\* the parameter list: "" stays "", otherwise every token of the comma split
\* is translated and the results are joined
ParamDescriptors(variables, fn) ==
    IF variables = << >>
    THEN << >>
    ELSE LET toks == Split(variables, Comma)
         IN  Concat([k \in 1..Len(toks) |-> TypeDescriptor(toks[k], fn)])

\* the f-string of a method line
MethodLine(obf_name, variables, method_type, function_name) ==
    Tab \o obf_name \o Space \o LParen \o variables \o RParen \o method_type
        \o Space \o function_name \o Newline

\* the f-string of a field line
FieldLineNoTab(obf_name, method_name) ==
    obf_name \o Space \o method_name \o Newline

FieldLine(obf_name, method_name) ==
    Tab \o obf_name \o Space \o method_name \o Newline

\* deobf_name.lstrip().split(" ")
MemberParts(deobf_name) == Split(LStrip(deobf_name), Space)

\* what the second pass writes for an indented line that unpacks
MemberLine(deobf_name, obf, fn) ==
    LET obf_name == RStrip(obf)
        parts == MemberParts(deobf_name)
        method_type == Last(Split(parts[1], Colon))
        method_name == Last(parts)
    IN  IF Contains(method_name, LParen) /\ Contains(method_name, RParen)
        THEN LET variables == Split(Last(Split(method_name, LParen)), RParen)[1]
                 function_name == Split(method_name, LParen)[1]
             IN  MethodLine(obf_name, ParamDescriptors(variables, fn),
                            TypeDescriptor(method_type, fn), function_name)
        ELSE FieldLine(obf_name, method_name)

\* what the second pass writes for a class header
ClassLine(deobf_name, obf) ==
    LET obf_name == Split(obf, Colon)[1]
    IN  Strip1(remap_file_path(obf_name)) \o Space
            \o Strip1(remap_file_path(deobf_name)) \o Newline

\* the second pass raises on this line
Pass2Raises(line) ==
    LET parts == Split(line, Arrow)
    IN  \/ ~Unpack2(parts)
        \/ /\ IsIndented(line)
           /\ ~Unpack2(MemberParts(parts[1]))

\* the string the second pass writes for a line it does not raise on
Pass2Write(line, fn) ==
    LET parts == Split(line, Arrow)
    IN  IF IsIndented(line)
        THEN MemberLine(parts[1], Last(parts), fn)
        ELSE ClassLine(parts[1], Last(parts))

(***************************************************************************)
(* The input files of the model: lines of the ProGuard-style grammar that  *)
(* convert_mappings reads, as text.                                        *)
(***************************************************************************)
n_pA == << "p", ".", "A" >>
n_qZ == << "q", ".", "Z" >>
n_B == << "B" >>
n_C == << "C" >>
n_D == << "D" >>
o_cd == << "c", ".", "d" >>

\* class headers  <deobf> -> <obf>:
ClassEntries ==
    { [deobf |-> n_pA, obf |-> << "a" >>],
      [deobf |-> n_B, obf |-> o_cd],
      [deobf |-> n_C, obf |-> kw_int],
      [deobf |-> kw_int, obf |-> << "e" >>] }

ClassText(e) == e.deobf \o Arrow \o e.obf \o Colon \o Newline

\* a type token: a name followed by dims pairs of brackets
RECURSIVE Repeat(_, _)
Repeat(s, n) == IF n = 0 THEN << >> ELSE s \o Repeat(s, n - 1)

TokenText(t) == t.base \o Repeat(Brackets, t.dims)

\* field lines  <type> <name> -> <obf>
FieldEntries ==
    { [type |-> [base |-> kw_int, dims |-> 0], name |-> << "x" >>, obf |-> << "b" >>] }

FieldText(e) ==
    Indent \o TokenText(e.type) \o Space \o e.name \o Arrow \o e.obf \o Newline

\* method lines  <from>:<to>:<ret> <name>(<params>) -> <obf>
MethodEntries ==
    { [prefix |-> << "1", ":", "2", ":" >>,
       ret |-> [base |-> kw_void, dims |-> 0], name |-> << "m" >>,
       params |-> << [base |-> kw_int, dims |-> 0], [base |-> n_pA, dims |-> 0] >>,
       obf |-> << "g" >>],
      [prefix |-> << "3", ":", "4", ":" >>,
       ret |-> [base |-> n_B, dims |-> 2], name |-> << "n" >>,
       params |-> << [base |-> n_pA, dims |-> 1], [base |-> n_qZ, dims |-> 0] >>,
       obf |-> << "h" >>],
      [prefix |-> << >>,
       ret |-> [base |-> kw_int, dims |-> 1], name |-> << "k" >>,
       params |-> << >>,
       obf |-> << "j" >>],
      [prefix |-> << >>,
       ret |-> [base |-> kw_void, dims |-> 0], name |-> << "r" >>,
       params |-> << [base |-> kw_int, dims |-> 0], [base |-> << >>, dims |-> 0] >>,
       obf |-> << "s" >>] }

MethodText(e) ==
    Indent \o e.prefix \o TokenText(e.ret) \o Space \o e.name \o LParen
        \o Join([k \in 1..Len(e.params) |-> TokenText(e.params[k])], Comma)
        \o RParen \o Arrow \o e.obf \o Newline

\* a comment, a header without the arrow, a header without the final colon,
\* a member whose left side has three words
CommentLine == << "#", " ", "x", "\n" >>
HeaderNoArrow == n_pA \o Colon \o Newline
HeaderNoColon == n_D \o Arrow \o << "f" >> \o Newline
MemberThreeWords ==
    Indent \o kw_int \o << " ", "x", " ", "y" >> \o Arrow \o << "b" >> \o Newline

\* a member with an opening parenthesis that is never closed
MemberOpenParen ==
    Indent \o kw_int \o << " ", "u", "(" >> \o Arrow \o << "v" >> \o Newline

Lines ==
    { ClassText(e) : e \in ClassEntries }
        \cup { FieldText(e) : e \in FieldEntries }
        \cup { MethodText(e) : e \in MethodEntries }
        \cup { CommentLine, HeaderNoArrow, HeaderNoColon, MemberThreeWords,
                 MemberOpenParen }

\* the files of at most MaxLines lines
InputFiles == UNION { [1..n -> Lines] : n \in 1..MaxLines }

\* the argument strings of the pure-function specification
Alphabet == { "a", "[", "]", "." }
Strings == UNION { [1..n -> Alphabet] : n \in 0..MaxLen }
Arguments ==
    Strings \cup { e[1] : e \in remap_primitives } \cup { e[2] : e \in remap_primitives }

(***************************************************************************)
(* State.                                                                  *)
(***************************************************************************)
VARIABLES
    inputFile,     \* mappings_file: the lines readlines() returns
    tsrgExists,    \* converted_mappings_file.exists()
    tsrg,          \* converted_mappings_file: the strings written, in order
    file_name,     \* the dict file_name
    pc,            \* "idle", "pass1" or "pass2"
    i,             \* index of the line the running loop is at
    outcome,       \* how the last invocation ended
    calls,         \* invocations of convert_mappings so far
    arg,           \* argument of a call of a pure function
    res            \* its result

vars == << inputFile, tsrgExists, tsrg, file_name, pc, i, outcome, calls, arg, res >>

NoResult == [op |-> "none"]

Init ==
    /\ inputFile \in InputFiles
    /\ tsrgExists = FALSE
    /\ tsrg = << >>
    /\ file_name = EmptyDict
    /\ pc = "idle"
    /\ i = 0
    /\ outcome = "none"
    /\ calls = 0
    /\ arg = << >>
    /\ res = NoResult

(***************************************************************************)
(* convert_mappings.                                                       *)
(***************************************************************************)
\* the variant without the early return: the call converts again
CallConvertsAgain ==
    /\ pc = "idle"
    /\ calls < MaxCalls
    /\ tsrgExists
    /\ calls' = calls + 1
    /\ outcome' = "running"
    /\ file_name' = EmptyDict
    /\ pc' = "pass1"
    /\ i' = 1
    /\ UNCHANGED << inputFile, tsrgExists, tsrg, arg, res >>

\* the converted file exists: return without converting
CallAlreadyConverted ==
    /\ pc = "idle"
    /\ calls < MaxCalls
    /\ tsrgExists
    /\ calls' = calls + 1
    /\ outcome' = "already converted"
    /\ UNCHANGED << inputFile, tsrgExists, tsrg, file_name, pc, i, arg, res >>

\* otherwise open the input and start the first loop with an empty dict
CallConvert ==
    /\ pc = "idle"
    /\ calls < MaxCalls
    /\ ~tsrgExists
    /\ calls' = calls + 1
    /\ outcome' = "running"
    /\ file_name' = EmptyDict
    /\ pc' = "pass1"
    /\ i' = 1
    /\ UNCHANGED << inputFile, tsrgExists, tsrg, arg, res >>

\* first loop, a comment: continue
Pass1Comment ==
    /\ pc = "pass1"
    /\ i <= Len(inputFile)
    /\ IsComment(inputFile[i])
    /\ i' = i + 1
    /\ UNCHANGED << inputFile, tsrgExists, tsrg, file_name, pc, outcome, calls, arg, res >>

\* first loop, the split does not unpack: ValueError leaves the function
Pass1Raise ==
    /\ pc = "pass1"
    /\ i <= Len(inputFile)
    /\ ~IsComment(inputFile[i])
    /\ ~Unpack2(Split(inputFile[i], Arrow))
    /\ pc' = "idle"
    /\ outcome' = "ValueError"
    /\ UNCHANGED << inputFile, tsrgExists, tsrg, file_name, i, calls, arg, res >>

\* first loop, any other line: a header is recorded in file_name
Pass1Line ==
    /\ pc = "pass1"
    /\ i <= Len(inputFile)
    /\ ~IsComment(inputFile[i])
    /\ Unpack2(Split(inputFile[i], Arrow))
    /\ file_name' = Pass1Update(file_name, inputFile[i])
    /\ i' = i + 1
    /\ UNCHANGED << inputFile, tsrgExists, tsrg, pc, outcome, calls, arg, res >>

\* the first loop is over: open(converted_mappings_file, 'w+') creates the
\* file empty and the second loop starts
OpenOutput ==
    /\ pc = "pass1"
    /\ i > Len(inputFile)
    /\ tsrgExists' = TRUE
    /\ tsrg' = << >>
    /\ pc' = "pass2"
    /\ i' = 1
    /\ UNCHANGED << inputFile, file_name, outcome, calls, arg, res >>

\* second loop, a comment: continue
Pass2Comment ==
    /\ pc = "pass2"
    /\ i <= Len(inputFile)
    /\ IsComment(inputFile[i])
    /\ i' = i + 1
    /\ UNCHANGED << inputFile, tsrgExists, tsrg, file_name, pc, outcome, calls, arg, res >>

\* second loop, a split does not unpack: ValueError leaves the function, the
\* with block closes the output file with what was written so far
Pass2Raise ==
    /\ pc = "pass2"
    /\ i <= Len(inputFile)
    /\ ~IsComment(inputFile[i])
    /\ Pass2Raises(inputFile[i])
    /\ pc' = "idle"
    /\ outcome' = "ValueError"
    /\ UNCHANGED << inputFile, tsrgExists, tsrg, file_name, i, calls, arg, res >>

\* second loop, any other line: one write
Pass2Line ==
    /\ pc = "pass2"
    /\ i <= Len(inputFile)
    /\ ~IsComment(inputFile[i])
    /\ ~Pass2Raises(inputFile[i])
    /\ tsrg' = Append(tsrg, Pass2Write(inputFile[i], file_name))
    /\ i' = i + 1
    /\ UNCHANGED << inputFile, tsrgExists, file_name, pc, outcome, calls, arg, res >>

\* the second loop is over: the files are closed and the function returns
Return ==
    /\ pc = "pass2"
    /\ i > Len(inputFile)
    /\ pc' = "idle"
    /\ outcome' = "converted"
    /\ UNCHANGED << inputFile, tsrgExists, tsrg, file_name, i, calls, arg, res >>

Next ==
    \/ CallAlreadyConverted
    \/ CallConvert
    \/ Pass1Comment
    \/ Pass1Raise
    \/ Pass1Line
    \/ OpenOutput
    \/ Pass2Comment
    \/ Pass2Raise
    \/ Pass2Line
    \/ Return

Spec == Init /\ [][Next]_vars

(***************************************************************************)
(* The pure functions on their own: one call of remove_brackets with       *)
(* counter 0 or of remap_file_path, on an argument of Arguments, while     *)
(* file_name holds some dict.                                              *)
(***************************************************************************)
SomeDicts ==
    { EmptyDict,
      DictPut(EmptyDict, << "L", "a", ";" >>, << "b" >>),
      DictPut(EmptyDict, << "I" >>, << "e" >>) }

InitPure ==
    /\ inputFile = << >>
    /\ tsrgExists = FALSE
    /\ tsrg = << >>
    /\ file_name \in SomeDicts
    /\ pc = "idle"
    /\ i = 0
    /\ outcome = "none"
    /\ calls = 0
    /\ arg \in Arguments
    /\ res = NoResult

CallRemoveBrackets ==
    /\ res = NoResult
    /\ res' = [op |-> "remove_brackets", value |-> remove_brackets(arg, 0)]
    /\ UNCHANGED << inputFile, tsrgExists, tsrg, file_name, pc, i, outcome, calls, arg >>

CallRemapFilePath ==
    /\ res = NoResult
    /\ res' = [op |-> "remap_file_path", value |-> remap_file_path(arg)]
    /\ UNCHANGED << inputFile, tsrgExists, tsrg, file_name, pc, i, outcome, calls, arg >>

NextPure ==
    \/ CallRemoveBrackets
    \/ CallRemapFilePath

SpecPure == InitPure /\ [][NextPure]_vars

(***************************************************************************)
(* Vocabulary of the properties: what the input lines mean, read off the   *)
(* entries they were written from, and what the output text looks like.    *)
(***************************************************************************)
\* a name with every dot replaced by a slash
SlashName(n) == [k \in 1..Len(n) |-> IF n[k] = "." THEN "/" ELSE n[k]]

\* the non-comment lines of the input, in order
NonComment == SelectSeq(inputFile, LAMBDA l : l[1] # "#")

\* position in the input of the k-th non-comment line
SrcIndex(k) ==
    CHOOSE j \in 1..Len(inputFile) :
        /\ inputFile[j][1] # "#"
        /\ Cardinality({ x \in 1..j : inputFile[x][1] # "#" }) = k

\* the k-th string written comes from this method / field / class entry
WrittenFrom(k, text) == k \in 1..Len(tsrg) /\ NonComment[k] = text

\* the input has a header for this class entry, at position j
HeaderAt(j, e) == j \in 1..Len(inputFile) /\ inputFile[j] = ClassText(e)

HasHeader(e) == \E j \in 1..Len(inputFile) : HeaderAt(j, e)

\* the tokens of a method entry: parameters, then the return type
TokensOf(m) == Append(m.params, m.ret)

\* the reference descriptor of a class name: L<slash-name>;
RefDescriptor(n) == LetterL \o SlashName(n) \o Semi

\* the letter of a primitive keyword
LetterOf(n) ==
    CASE n = kw_int -> << "I" >>
      [] n = kw_double -> << "D" >>
      [] n = kw_boolean -> << "Z" >>
      [] n = kw_float -> << "F" >>
      [] n = kw_long -> << "J" >>
      [] n = kw_byte -> << "B" >>
      [] n = kw_short -> << "S" >>
      [] n = kw_char -> << "C" >>
      [] n = kw_void -> << "V" >>

Keywords ==
    { kw_int, kw_double, kw_boolean, kw_float, kw_long, kw_byte, kw_short,
      kw_char, kw_void }

Letters == { << c >> : c \in { "I", "D", "Z", "F", "J", "B", "S", "C", "V" } }

\* the descriptor the properties expect for a bare token under the index idx.
\* A reference token is rendered from its index entry when it has one, with
\* the entry's name taken as written (slashed = FALSE) or in slash form
\* (slashed = TRUE).  A primitive token is outside the properties that use
\* this operator; it is taken as the program renders it.
BareDescriptor(base, idx, slashed) ==
    LET key == IF base \in Keywords THEN LetterOf(base) ELSE RefDescriptor(base)
    IN  IF key \in DOMAIN idx
        THEN LetterL \o (IF slashed THEN SlashName(idx[key]) ELSE idx[key]) \o Semi
        ELSE key

TokenDescriptor(t, idx, slashed) ==
    Repeat(Open, t.dims) \o BareDescriptor(t.base, idx, slashed)

\* (<params>)<return> of a method entry
MethodDescriptor(m, idx, slashed) ==
    LParen
        \o Concat([k \in 1..Len(m.params) |-> TokenDescriptor(m.params[k], idx, slashed)])
        \o RParen \o TokenDescriptor(m.ret, idx, slashed)

\* the part of a written method line between "<TAB><obf> " and " <name>\n"
Middle(text, m) ==
    Slice(text, Len(m.obf) + 3, Len(text) - Len(m.name) - 2)

\* a descriptor string cut into descriptors: [* followed by L...; or a letter
RECURSIVE LeadingOpens(_)
LeadingOpens(d) ==
    IF Len(d) > 0 /\ d[1] = "[" THEN 1 + LeadingOpens(Tail(d)) ELSE 0

RECURSIVE ParseDescriptors(_)
ParseDescriptors(d) ==
    IF Len(d) = 0 THEN << >>
    ELSE LET n == LeadingOpens(d)
             rest == Slice(d, n + 1, Len(d))
             len == IF Len(rest) > 0 /\ rest[1] = "L" /\ Contains(rest, Semi)
                    THEN FirstOcc(rest, Semi)
                    ELSE IF Len(rest) > 0 THEN 1 ELSE 0
         IN  << Slice(d, 1, n + len) >> \o ParseDescriptors(Slice(rest, len + 1, Len(rest)))

\* the descriptors of a written method line: parameters, then the return type
DescriptorsOf(text, m) ==
    LET mid == Middle(text, m)
        close == FirstOcc(mid, RParen)
    IN  ParseDescriptors(Slice(mid, 2, close - 1))
            \o ParseDescriptors(Slice(mid, close + 1, Len(mid)))

\* the physical lines of a text: the pieces its newlines end
PhysicalLines(text) ==
    LET pieces == Split(text, Newline)
    IN  IF Last(pieces) = << >> THEN SubSeq(pieces, 1, Len(pieces) - 1) ELSE pieces

\* the invocation has ended
Ended == pc = "idle" /\ calls > 0

(***************************************************************************)
(* Properties.                                                             *)
(***************************************************************************)
\* C1: while the second pass runs, file_name holds an entry for every class
\* header of the input, wherever the header stands, and a method line written
\* renders every token that names a class with a header (also a header later
\* in the input) with that class's obfuscated name.
C1_IndexCompleteBeforeSecondPass ==
    pc = "pass2" =>
        /\ \A e \in ClassEntries :
               HasHeader(e) => \E key \in DOMAIN file_name : file_name[key] = e.obf
        /\ \A k \in 1..Len(tsrg) : \A m \in MethodEntries : \A e \in ClassEntries :
               ( /\ WrittenFrom(k, MethodText(m))
                 /\ HasHeader(e)
                 /\ e.deobf \notin Keywords
                 /\ \E x \in 1..Len(TokensOf(m)) : TokensOf(m)[x].base = e.deobf )
               => Contains(tsrg[k], LetterL \o SlashName(e.obf) \o Semi)

\* C1 witness: a method line has been written whose token names a class whose
\* header stands later in the input, and the line carries the obfuscated name.
C1_Witness ==
    /\ pc = "pass2"
    /\ \E k \in 1..Len(tsrg) : \E m \in MethodEntries : \E e \in ClassEntries :
           /\ WrittenFrom(k, MethodText(m))
           /\ e.deobf \notin Keywords
           /\ \E x \in 1..Len(TokensOf(m)) : TokensOf(m)[x].base = e.deobf
           /\ \E j \in 1..Len(inputFile) : HeaderAt(j, e) /\ j > SrcIndex(k)
           /\ ~\E j \in 1..SrcIndex(k) : HeaderAt(j, e)
           /\ Contains(tsrg[k], LetterL \o SlashName(e.obf) \o Semi)

\* C2: an invocation that ended either converted and wrote one string per
\* non-comment line, or raised and left no converted file behind.
C2_AllOrNothing ==
    Ended =>
        /\ outcome = "converted" => Len(tsrg) = Len(NonComment)
        /\ outcome = "ValueError" => ~tsrgExists

\* C3: when some class header of the input lacks the arrow, no converted file
\* is ever created and every invocation ends with the error.
HasHeaderWithoutArrow ==
    \E j \in 1..Len(inputFile) :
        /\ inputFile[j][1] # "#"
        /\ ~StartsWith(inputFile[j], Indent)
        /\ ~Contains(inputFile[j], Arrow)

C3_HeaderWithoutArrowAborts ==
    HasHeaderWithoutArrow =>
        /\ ~tsrgExists
        /\ tsrg = << >>
        /\ Ended => outcome = "ValueError"

\* C3 witness: the invocation ended with the error on a header without the
\* arrow that stands between a valid header and a valid member line.
C3_Witness ==
    /\ Ended
    /\ outcome = "ValueError"
    /\ Len(inputFile) = 3
    /\ inputFile[1] \in { ClassText(e) : e \in ClassEntries }
    /\ inputFile[2] = HeaderNoArrow
    /\ inputFile[3] \in { MethodText(m) : m \in MethodEntries }

C5_SubstitutedByEntryName ==
    \A k \in 1..Len(tsrg) : \A m \in MethodEntries :
        WrittenFrom(k, MethodText(m)) =>
            Middle(tsrg[k], m) = MethodDescriptor(m, file_name, FALSE)

\* C5 as amended: the same, with the entry's obfuscated name written with every
\* dot replaced by a slash.
C5_SubstitutedBySlashedEntryName ==
    \A k \in 1..Len(tsrg) : \A m \in MethodEntries :
        WrittenFrom(k, MethodText(m)) =>
            Middle(tsrg[k], m) = MethodDescriptor(m, file_name, TRUE)

\* C5 witness: a method line with two reference parameters has been written,
\* the first with an entry in file_name and the second without.
C5_Witness ==
    \E k \in 1..Len(tsrg) : \E m \in MethodEntries :
        /\ WrittenFrom(k, MethodText(m))
        /\ Len(m.params) = 2
        /\ m.params[1].base \notin Keywords
        /\ m.params[2].base \notin Keywords
        /\ RefDescriptor(m.params[1].base) \in DOMAIN file_name
        /\ RefDescriptor(m.params[2].base) \notin DOMAIN file_name
        /\ RefDescriptor(m.ret.base) \in DOMAIN file_name

\* C6: in a written method line, the descriptor of every token with n bracket
\* pairs is n opening brackets followed by the descriptor of the bare token,
\* which starts with L or a primitive letter, substituted or not.
C6_BracketsLeadDescriptor ==
    \A k \in 1..Len(tsrg) : \A m \in MethodEntries :
        WrittenFrom(k, MethodText(m)) =>
            LET ds == DescriptorsOf(tsrg[k], m)
                ts == TokensOf(m)
            IN  /\ Len(ds) = Len(ts)
                /\ \A x \in 1..Len(ts) :
                       /\ LeadingOpens(ds[x]) = ts[x].dims
                       /\ Slice(ds[x], ts[x].dims + 1, Len(ds[x]))
                              = BareDescriptor(ts[x].base, file_name, TRUE)
                       /\ ds[x][ts[x].dims + 1] = "L"
                              \/ << ds[x][ts[x].dims + 1] >> \in Letters

\* C6 witness: a written method line has a two-dimensional token that was
\* substituted and a one-dimensional token that was not.
C6_Witness ==
    \E k \in 1..Len(tsrg) : \E m \in MethodEntries :
        /\ WrittenFrom(k, MethodText(m))
        /\ \E x \in 1..Len(TokensOf(m)) :
               /\ TokensOf(m)[x].dims = 2
               /\ RefDescriptor(TokensOf(m)[x].base) \in DOMAIN file_name
        /\ \E x \in 1..Len(TokensOf(m)) :
               /\ TokensOf(m)[x].dims = 1
               /\ TokensOf(m)[x].base \notin Keywords
               /\ RefDescriptor(TokensOf(m)[x].base) \notin DOMAIN file_name

\* C7: remap_file_path gives each of the nine primitive keywords its letter,
\* gives every other string L + the string with slashes for dots + ;, which is
\* never one of the nine letters, and gives the same whatever file_name holds.
C7_RemapFilePath ==
    res.op = "remap_file_path" =>
        /\ arg = kw_int => res.value = << "I" >>
        /\ arg = kw_double => res.value = << "D" >>
        /\ arg = kw_boolean => res.value = << "Z" >>
        /\ arg = kw_float => res.value = << "F" >>
        /\ arg = kw_long => res.value = << "J" >>
        /\ arg = kw_byte => res.value = << "B" >>
        /\ arg = kw_short => res.value = << "S" >>
        /\ arg = kw_char => res.value = << "C" >>
        /\ arg = kw_void => res.value = << "V" >>
        /\ arg \notin Keywords =>
               /\ res.value = LetterL \o SlashName(arg) \o Semi
               /\ res.value \notin Letters

\* C7 witness: remap_file_path has been applied to a name with a dot while
\* file_name holds an entry, and to nothing that entry could change.
C7_Witness ==
    /\ res.op = "remap_file_path"
    /\ Contains(arg, Dot)
    /\ file_name # EmptyDict

\* the number of bracket pairs at the end of a string
RECURSIVE TrailingPairs(_)
TrailingPairs(s) ==
    IF EndsWith(s, Brackets) THEN 1 + TrailingPairs(SubSeq(s, 1, Len(s) - 2)) ELSE 0

\* C8: remove_brackets with counter 0 returns the string without the bracket
\* pairs that end it, and their number; a string that does not end in a pair
\* comes back unchanged with 0.
C8_RemoveBracketsStripsTrailingPairs ==
    res.op = "remove_brackets" =>
        /\ res.value[2] = TrailingPairs(arg)
        /\ res.value[1] = SubSeq(arg, 1, Len(arg) - 2 * TrailingPairs(arg))
        /\ ~EndsWith(arg, Brackets) => res.value = << arg, 0 >>

\* C9: the string written for a class header <deobf> -> <obf>: is the
\* obfuscated name, one space, the deobfuscated name with slashes for dots,
\* and the newline; neither name is cut or emptied.
C9_ClassLineKeepsBothNames ==
    \A k \in 1..Len(tsrg) : \A e \in ClassEntries :
        WrittenFrom(k, ClassText(e)) =>
            tsrg[k] = e.obf \o Space \o SlashName(e.deobf) \o Newline

\* C10: after a conversion that returned, the converted file has one physical
\* line per non-comment input line, the k-th being what was written for the
\* k-th non-comment line.
C10_OnePhysicalLinePerInputLine ==
    (Ended /\ outcome = "converted") =>
        LET out == PhysicalLines(Concat(tsrg))
        IN  /\ Len(out) = Len(NonComment)
            /\ Len(tsrg) = Len(NonComment)
            /\ \A k \in 1..Len(out) : out[k] \o Newline = tsrg[k]

\* a method entry with an empty type token
HasEmptyToken(m) == \E x \in 1..Len(TokensOf(m)) : TokensOf(m)[x].base = << >>

\* C11: an empty type token is rejected: no string written for a method with
\* an empty return or parameter token holds the descriptor L; of the empty
\* token, and a conversion of an input with such a method does not return.
C11_EmptyTokenRejected ==
    /\ \A k \in 1..Len(tsrg) : \A m \in MethodEntries :
           (WrittenFrom(k, MethodText(m)) /\ HasEmptyToken(m))
               => ~Contains(tsrg[k], LetterL \o Semi)
    /\ (Ended /\ outcome = "converted") =>
           \A j \in 1..Len(inputFile) : \A m \in MethodEntries :
               inputFile[j] = MethodText(m) => ~HasEmptyToken(m)

\* C12: a member whose parentheses do not match is fatal: nothing is written
\* for it, neither a method line nor a field line, and a conversion of an
\* input with such a member does not return.
C12_UnmatchedParenthesisIsFatal ==
    /\ \A k \in 1..Len(tsrg) : ~WrittenFrom(k, MemberOpenParen)
    /\ (Ended /\ outcome = "converted") =>
           \A j \in 1..Len(inputFile) : inputFile[j] # MemberOpenParen

\* C13 as claimed: every invocation starts the conversion, whether or not the
\* converted file exists.
C13_EveryCallConverts ==
    [][calls' = calls + 1 => pc' = "pass1"]_vars

\* C13 as amended: an invocation that finds the converted file returns at once
\* and leaves the file and file_name as they are; an invocation that finds no
\* converted file starts the conversion.
C13_ExistenceCheckDecides ==
    [][calls' = calls + 1 =>
          IF tsrgExists
          THEN /\ outcome' = "already converted"
               /\ pc' = "idle"
               /\ tsrg' = tsrg
               /\ tsrgExists' = tsrgExists
               /\ file_name' = file_name
          ELSE /\ outcome' = "running"
               /\ pc' = "pass1"]_vars

\* C13 witness: a second invocation found the file an earlier conversion had
\* written and returned without converting.
C13_Witness ==
    /\ calls = 2
    /\ pc = "idle"
    /\ outcome = "already converted"
    /\ tsrgExists
    /\ Len(tsrg) = Len(NonComment)
    /\ Len(tsrg) > 0

\* C14: whenever an invocation has returned normally, converting or not, the
\* converted file exists and holds one string for every non-comment line of
\* the input.
C14_ReturnMeansCompleteFile ==
    (Ended /\ outcome \in { "converted", "already converted" }) =>
        /\ tsrgExists
        /\ Len(tsrg) = Len(NonComment)

\* C15: every key of file_name is of the form L<name>;, and in a written method
\* line the descriptor of a primitive token is its brackets and its letter.
C15_PrimitivesNeverSubstituted ==
    /\ \A key \in DOMAIN file_name :
           Len(key) >= 2 /\ key[1] = "L" /\ Last(key) = ";"
    /\ \A k \in 1..Len(tsrg) : \A m \in MethodEntries :
           WrittenFrom(k, MethodText(m)) =>
               LET ds == DescriptorsOf(tsrg[k], m)
                   ts == TokensOf(m)
               IN  \A x \in 1..Len(ts) :
                       ts[x].base \in Keywords =>
                           /\ x <= Len(ds)
                           /\ ds[x] = Repeat(Open, ts[x].dims) \o LetterOf(ts[x].base)

====
